---- MODULE Spec2Model ----
(***************************************************************************)
(* Model of packages/gatsby-cli/src/reporter/index.js: the reporter facade *)
(* (error / panic / panicOnBuild with createRichError) and the activity    *)
(* trackers returned by activityTimer and createProgress.                  *)
(***************************************************************************)
EXTENDS Integers, Sequences, FiniteSets, TLC

\* ------------------------------------------------------------------ bounds
\* Number of facade and handle calls in one run.
MaxCalls == 4
\* Activities created in one run.
MaxActs == 2
\* process.hrtime() readings: the k-th reading is k, up to MaxTime (0 stands
\* for "never read").
MaxTime == 2

\* Inputs of the activity operations.
Names == {"build", "query"}
Totals == {1, 2}
Starts == {0, 1}
Statuses == {"half"}

VARIABLES
    spans,       \* the tracer's spans, in creation order
    activities,  \* the rendering backend's activities, in creation order
    trackers,    \* the closures behind the handles returned to callers
    ticked,      \* per tracker: the start argument and the tick() calls made
    now,         \* the last process.hrtime() reading
    ncalls,      \* calls made so far
    lastCall,    \* the last call and the calls it made on its collaborators
    backendUp,   \* whether the rendering backend's calls succeed
    mode,        \* process.env.gatsby_executing_command
    proc,        \* "running" until process.exit is called
    report       \* the last error/panic/panicOnBuild call and what it did

activityVars ==
    <<spans, activities, trackers, ticked, now, ncalls, lastCall, backendUp>>
errorVars == <<mode, proc, report>>
vars == <<spans, activities, trackers, ticked, now, ncalls, lastCall,
          backendUp, mode, proc, report>>

\* ----------------------------------------------------------------- helpers
\* Object spread / partial update: the fields of b override those of a.
Merge(a, b) ==
    [k \in (DOMAIN a) \cup (DOMAIN b) |-> IF k \in DOMAIN b THEN b[k] ELSE a[k]]

\* StartSpan with spanArgs dropped: every span is started without a parent.
StartSpanDetached(name, parentSpan) ==
    Append(spans, [name |-> name, childOf |-> 0, finished |-> FALSE])

\* tracer.startSpan(name, spanArgs): a new span, child of parentSpan if given
\* (0 stands for no parentSpan).
StartSpan(name, parentSpan) ==
    Append(spans, [name |-> name, childOf |-> parentSpan, finished |-> FALSE])

\* span.finish()
SpanFinish(s) == [spans EXCEPT ![s].finished = TRUE]

\* reporterInstance.createActivity(initialFields): a new backend activity.
CreateActivity(fields) == Append(activities, [fields |-> fields, done |-> FALSE])

\* activity.update(partialFields)
ActivityUpdate(a, partial) ==
    [activities EXCEPT ![a].fields = Merge(@, partial)]

\* activity.done()
ActivityDone(a) == [activities EXCEPT ![a].done = TRUE]

Handles == 1..Len(trackers)
ParentSpans == 0..Len(spans)

IsSpinner(h) == trackers[h].kind = "spinner"
IsProgress(h) == trackers[h].kind = "progress"

\* What a call is recorded as: the operation, the handle, the argument, the
\* partial updates it pushed to the backend, whether it called span.finish()
\* and activity.done(), and whether it ended in an exception to the caller.
Call(op, h, arg, updates, finish) ==
    [op |-> op, h |-> h, arg |-> arg, updates |-> updates, finish |-> finish,
     threw |-> FALSE]

\* A call that a failing backend call ended: nothing was delivered.
Thrown(op, h, arg, finish) ==
    [op |-> op, h |-> h, arg |-> arg, updates |-> <<>>, finish |-> finish,
     threw |-> TRUE]

CanCall == ncalls < MaxCalls

\* ------------------------------------------------- error values and inputs
\* JavaScript values passed to error(): tagged with what typeof/instanceof see.
Str(v) == [type |-> "string", value |-> v]
Obj(fields) == [type |-> "object", fields |-> fields]
IsError(x) == x.type = "Error"
IsObject(x) == x.type \in {"object", "Error"}
IsString(x) == x.type = "string"

Texts == {"", "boom", "oops"}
Errors == {[type |-> "Error", message |-> "boom", trace |-> <<"build", "run">>]}
Ids == {"85901", "00000"}
Contexts == {[sourceMessage |-> "disk full"]}
Levels == {"INFO"}
Commands == {"build", "develop"}

\* A field that may be absent: no key, or the key with one of the values.
Optional(key, values) == {<<>>} \cup {key :> v : v \in values}

\* Partial error details as callers shape them, extra keys included.
PartialDetails ==
    {i @@ t @@ c @@ e @@ l @@ x :
        i \in Optional("id", Ids), t \in Optional("text", Texts),
        c \in Optional("context", Contexts), e \in Optional("error", Errors),
        l \in Optional("level", Levels), x \in Optional("bogus", {"extra"})}

\* The argument lists error/panic/panicOnBuild are called with.
ArgLists ==
    {<<Str(t), e>> : t \in Texts, e \in Errors}
        \cup {<<e>> : e \in Errors}
        \cup {<<Obj(d)>> : d \in PartialDetails}
        \cup {<<Str(t)>> : t \in Texts}
        \cup {<<>>}

\* ../util/error-map: errorMap and defaultError. A definition's text is its
\* generator, named here and applied by Generate.
errorMap ==
    [id \in {"85901"} |-> [text |-> "graphql", level |-> "WARNING", type |-> "GRAPHQL"]]
defaultError == [text |-> "default", level |-> "ERROR"]

\* result.text(context): the display text a definition generates.
Generate(generator, context) ==
    LET message == IF "sourceMessage" \in DOMAIN context
                   THEN context.sourceMessage ELSE ""
    IN  CASE generator = "default" ->
                IF message # "" THEN message ELSE "There was an error"
          [] generator = "graphql" ->
                IF message = "disk full" THEN "GraphQL: disk full"
                ELSE "GraphQL: unknown error"

\* ../util/error-schema through Joi.validate: the keys a rich error may carry
\* and the ones it must.
SchemaKeys ==
    {"id", "text", "stack", "level", "type", "filePath", "location", "docsUrl",
     "error", "context"}
SchemaValid(richError) ==
    /\ DOMAIN richError \subseteq SchemaKeys
    /\ {"text", "level", "stack"} \subseteq DOMAIN richError
    /\ richError.text # ""

\* stackTrace.parse(error): one frame per line of the error's trace.
StackParse(error) == [i \in DOMAIN error.trace |-> [functionName |-> error.trace[i]]]

\* JavaScript truthiness of an optional string field.
Truthy(obj, key) == key \in DOMAIN obj /\ obj[key] # ""
\* JavaScript truthiness of an optional object field.
Present(obj, key) == key \in DOMAIN obj

\* ------------------------------------------------------- createRichError
\* LookUp without the fallback for an id the table does not hold: any truthy
\* id selects a table entry.
LookUpAnyId(details) ==
    IF Truthy(details, "id")
    THEN errorMap[CHOOSE id \in DOMAIN errorMap : TRUE] ELSE defaultError

\* (details.id && errorMap[details.id]) || defaultError
LookUp(details) ==
    IF Truthy(details, "id") /\ details.id \in DOMAIN errorMap
    THEN errorMap[details.id] ELSE defaultError

ContextOf(details) == IF Present(details, "context") THEN details.context ELSE <<>>

\* ResolveText taking the caller's text whenever the key is there, empty or not.
ResolveTextIfPresent(details, result) ==
    IF Present(details, "text") THEN details.text
    ELSE Generate(result.text, ContextOf(details))

\* get(details, `text`) || result.text(details.context)
ResolveText(details, result) ==
    IF Truthy(details, "text") THEN details.text
    ELSE Generate(result.text, ContextOf(details))

\* details.error ? stackTrace.parse(details.error) : []
ResolveStack(details) ==
    IF Present(details, "error") THEN StackParse(details.error) ELSE <<>>

\* RichErrorOf with the spreads the other way round: { ...result, ...details }.
RichErrorOfDetailsLast(details) ==
    Merge(Merge(LookUp(details), details),
          [text |-> ResolveText(details, LookUp(details)),
           stack |-> ResolveStack(details)])

\* { ...details, ...result, text, stack }
RichErrorOf(details) ==
    Merge(Merge(details, LookUp(details)),
          [text |-> ResolveText(details, LookUp(details)),
           stack |-> ResolveStack(details)])

\* ------------------------------------------------------------------ error
\* What a facade call did, in order, and how it ended:
\* "returned", "exited" (process.exit) or "threw" (an exception to the caller).
Render(richError) == [kind |-> "render", error |-> richError]
LogStack(error) == [kind |-> "log", rendered |-> error]
LogText(text) == [kind |-> "log", text |-> text]
Telemetry(name) == [kind |-> "telemetry", name |-> name]
Exit(code) == [kind |-> "exit", code |-> code]
Outcome(details, built, effects, outcome) ==
    [details |-> details, built |-> built, effects |-> effects, outcome |-> outcome]

\* The one-argument Error branch reads error.message with error undefined.
NormalizeThrows(args) == Len(args) = 1 /\ IsError(args[1])

\* The details error() builds from its arguments.
Normalize(args) ==
    IF Len(args) = 2 THEN [error |-> args[2], text |-> args[1].value]
    ELSE IF Len(args) = 1 /\ IsObject(args[1]) THEN args[1].fields
    ELSE IF Len(args) = 1 /\ IsString(args[1]) THEN [text |-> args[1].value]
    ELSE <<>>

\* ErrorCall with the validation result ignored: the record is rendered anyway.
ErrorCallUnvalidated(args) ==
    IF NormalizeThrows(args)
    THEN Outcome([error |-> args[1]], <<>>, <<>>, "threw")
    ELSE LET details == Normalize(args)
             richError == RichErrorOf(details)
         IN  Outcome(details, richError,
                     <<Render(richError)>> \o
                         (IF Present(richError, "error")
                          THEN <<LogStack(richError.error)>> ELSE <<>>),
                     "returned")

\* ErrorCall logging the formatted exception before the rich error is rendered.
ErrorCallLogFirst(args) ==
    IF NormalizeThrows(args)
    THEN Outcome([error |-> args[1]], <<>>, <<>>, "threw")
    ELSE LET details == Normalize(args)
             richError == RichErrorOf(details)
         IN  IF ~SchemaValid(richError)
             THEN Outcome(details, richError,
                          <<LogText("Failed to validate error"), Exit(1)>>, "exited")
             ELSE Outcome(details, richError,
                          (IF Present(richError, "error")
                           THEN <<LogStack(richError.error)>> ELSE <<>>)
                              \o <<Render(richError)>>,
                          "returned")

ErrorCall(args) ==
    IF NormalizeThrows(args)
    THEN Outcome([error |-> args[1]], <<>>, <<>>, "threw")
    ELSE LET details == Normalize(args)
             richError == RichErrorOf(details)
         IN  IF ~SchemaValid(richError)
             THEN Outcome(details, richError,
                          <<LogText("Failed to validate error"), Exit(1)>>, "exited")
             ELSE Outcome(details, richError,
                          <<Render(richError)>> \o
                              (IF Present(richError, "error")
                               THEN <<LogStack(richError.error)>> ELSE <<>>),
                          "returned")

PanicCall(args) ==
    LET e == ErrorCall(args)
    IN  IF e.outcome # "returned" THEN e
        ELSE Outcome(e.details, e.built,
                     e.effects \o <<Telemetry("GENERAL_PANIC"), Exit(1)>>, "exited")

PanicOnBuildCall(args) ==
    LET e == ErrorCall(args)
    IN  IF e.outcome # "returned" THEN e
        ELSE IF mode = "build"
        THEN Outcome(e.details, e.built,
                     e.effects \o <<Telemetry("BUILD_PANIC"), Exit(1)>>, "exited")
        ELSE Outcome(e.details, e.built, e.effects \o <<Telemetry("BUILD_PANIC")>>, "returned")

Report(op, args, result) ==
    [op |-> op, args |-> args, details |-> result.details,
     built |-> result.built, effects |-> result.effects,
     outcome |-> result.outcome]
NoReport == Report("none", <<>>, Outcome(<<>>, <<>>, <<>>, "returned"))

Finish(op, args, result) ==
    /\ report' = Report(op, args, result)
    /\ proc' = IF result.outcome = "exited" THEN "exited" ELSE proc
    /\ UNCHANGED mode
    /\ UNCHANGED activityVars

ReporterError(args) ==
    /\ proc = "running"
    /\ Finish("error", args, ErrorCall(args))

Panic(args) ==
    /\ proc = "running"
    /\ Finish("panic", args, PanicCall(args))

PanicOnBuild(args) ==
    /\ proc = "running"
    /\ Finish("panicOnBuild", args, PanicOnBuildCall(args))

\* -------------------------------------------------------------------- Init
Init ==
    /\ spans = <<>>
    /\ activities = <<>>
    /\ trackers = <<>>
    /\ ticked = <<>>
    /\ now = 0
    /\ ncalls = 0
    /\ lastCall = Call("none", 0, <<>>, <<>>, FALSE)
    /\ backendUp = TRUE
    /\ mode = "develop"
    /\ proc = "running"
    /\ report = NoReport

\* ----------------------------------------------------------- activityTimer
ActivityTimer(name, parentSpan) ==
    /\ CanCall
    /\ Len(trackers) < MaxActs
    /\ spans' = StartSpan(name, parentSpan)
    /\ activities' = CreateActivity([type |-> "spinner", id |-> name, status |-> ""])
    /\ trackers' = Append(trackers,
            [kind |-> "spinner", span |-> Len(spans) + 1,
             activity |-> Len(activities) + 1])
    /\ ticked' = Append(ticked, [start |-> 0, ticks |-> 0])
    /\ ncalls' = ncalls + 1
    /\ UNCHANGED <<errorVars, backendUp>>
    /\ lastCall' = Call("activityTimer", Len(trackers) + 1,
                      [name |-> name, parentSpan |-> parentSpan], <<>>, FALSE)
    /\ UNCHANGED now

\* TimerStart guarded as the progress tracker's start() is: a spinner that has
\* a start time is not stamped again.
TimerStartOnce(h) ==
    /\ CanCall
    /\ IsSpinner(h)
    /\ IF "startTime" \in DOMAIN activities[trackers[h].activity].fields
       THEN /\ lastCall' = Call("start", h, <<>>, <<>>, FALSE)
            /\ UNCHANGED <<activities, now>>
       ELSE /\ now < MaxTime
            /\ now' = now + 1
            /\ activities' = ActivityUpdate(trackers[h].activity,
                                            [startTime |-> now + 1])
            /\ lastCall' = Call("start", h, <<>>, <<[startTime |-> now + 1]>>, FALSE)
    /\ ncalls' = ncalls + 1
    /\ UNCHANGED <<errorVars, backendUp>>
    /\ UNCHANGED <<spans, trackers, ticked>>

TimerStart(h) ==
    /\ CanCall
    /\ IsSpinner(h)
    /\ now < MaxTime
    /\ LET t == now + 1 IN
        /\ now' = t
        /\ activities' = ActivityUpdate(trackers[h].activity, [startTime |-> t])
        /\ lastCall' = Call("start", h, <<>>, <<[startTime |-> t]>>, FALSE)
    /\ ncalls' = ncalls + 1
    /\ UNCHANGED <<errorVars, backendUp>>
    /\ UNCHANGED <<spans, trackers, ticked>>

TimerSetStatus(h, status) ==
    /\ CanCall
    /\ IsSpinner(h)
    /\ activities' = ActivityUpdate(trackers[h].activity, [status |-> status])
    /\ lastCall' = Call("setStatus", h, [status |-> status],
                      <<[status |-> status]>>, FALSE)
    /\ ncalls' = ncalls + 1
    /\ UNCHANGED <<errorVars, backendUp>>
    /\ UNCHANGED <<spans, trackers, ticked, now>>

\* TimerEnd as it would be if spans and activities were looked up by name.
TimerEndByName(h) ==
    /\ CanCall
    /\ IsSpinner(h)
    /\ spans' = [s \in DOMAIN spans |->
            IF spans[s].name = spans[trackers[h].span].name
            THEN [spans[s] EXCEPT !.finished = TRUE] ELSE spans[s]]
    /\ activities' = [a \in DOMAIN activities |->
            IF activities[a].fields.id = activities[trackers[h].activity].fields.id
            THEN [activities[a] EXCEPT !.done = TRUE] ELSE activities[a]]
    /\ lastCall' = Call("end", h, <<>>, <<>>, TRUE)
    /\ ncalls' = ncalls + 1
    /\ UNCHANGED <<errorVars, backendUp>>
    /\ UNCHANGED <<trackers, ticked, now>>

TimerEnd(h) ==
    /\ CanCall
    /\ IsSpinner(h)
    /\ spans' = SpanFinish(trackers[h].span)
    /\ activities' = ActivityDone(trackers[h].activity)
    /\ lastCall' = Call("end", h, <<>>, <<>>, TRUE)
    /\ ncalls' = ncalls + 1
    /\ UNCHANGED <<errorVars, backendUp>>
    /\ UNCHANGED <<trackers, ticked, now>>

\* ---------------------------------------------------------- createProgress
CreateProgress(name, total, start, parentSpan) ==
    /\ CanCall
    /\ Len(trackers) < MaxActs
    /\ spans' = StartSpan(name, parentSpan)
    /\ activities' = CreateActivity(
            [type |-> "progress", id |-> name, current |-> start, total |-> total])
    /\ trackers' = Append(trackers,
            [kind |-> "progress", span |-> Len(spans) + 1,
             activity |-> Len(activities) + 1,
             hasStarted |-> FALSE, current |-> start, total |-> total])
    /\ ticked' = Append(ticked, [start |-> start, ticks |-> 0])
    /\ ncalls' = ncalls + 1
    /\ UNCHANGED <<errorVars, backendUp>>
    /\ lastCall' = Call("createProgress", Len(trackers) + 1,
                      [name |-> name, total |-> total, start |-> start,
                       parentSpan |-> parentSpan], <<>>, FALSE)
    /\ UNCHANGED now

ProgressStartFirst(h) ==
    /\ ~trackers[h].hasStarted
    /\ now < MaxTime
    /\ LET t == now + 1 IN
        /\ now' = t
        /\ activities' = ActivityUpdate(trackers[h].activity, [startTime |-> t])
        /\ lastCall' = Call("start", h, <<>>, <<[startTime |-> t]>>, FALSE)
    /\ trackers' = [trackers EXCEPT ![h].hasStarted = TRUE]

ProgressStartAgain(h) ==
    /\ trackers[h].hasStarted
    /\ lastCall' = Call("start", h, <<>>, <<>>, FALSE)
    /\ UNCHANGED <<activities, trackers, now>>

\* ProgressStart without the hasStarted guard, as the spinner's start() is.
ProgressStartUnguarded(h) ==
    /\ CanCall
    /\ IsProgress(h)
    /\ now < MaxTime
    /\ LET t == now + 1 IN
        /\ now' = t
        /\ activities' = ActivityUpdate(trackers[h].activity, [startTime |-> t])
        /\ lastCall' = Call("start", h, <<>>, <<[startTime |-> t]>>, FALSE)
    /\ trackers' = [trackers EXCEPT ![h].hasStarted = TRUE]
    /\ ncalls' = ncalls + 1
    /\ UNCHANGED <<errorVars, backendUp>>
    /\ UNCHANGED <<spans, ticked>>

ProgressStart(h) ==
    /\ CanCall
    /\ IsProgress(h)
    /\ (ProgressStartAgain(h) \/ ProgressStartFirst(h))
    /\ ncalls' = ncalls + 1
    /\ UNCHANGED <<errorVars, backendUp>>
    /\ UNCHANGED <<spans, ticked>>

ProgressSetStatus(h, status) ==
    /\ CanCall
    /\ IsProgress(h)
    /\ activities' = ActivityUpdate(trackers[h].activity, [status |-> status])
    /\ lastCall' = Call("setStatus", h, [status |-> status],
                      <<[status |-> status]>>, FALSE)
    /\ ncalls' = ncalls + 1
    /\ UNCHANGED <<errorVars, backendUp>>
    /\ UNCHANGED <<spans, trackers, ticked, now>>

\* ProgressTick with current++ in place of ++current: the old count is pushed.
ProgressTickPostIncrement(h) ==
    /\ CanCall
    /\ IsProgress(h)
    /\ trackers' = [trackers EXCEPT ![h].current = @ + 1]
    /\ activities' = ActivityUpdate(trackers[h].activity,
                                    [current |-> trackers[h].current])
    /\ ticked' = [ticked EXCEPT ![h].ticks = @ + 1]
    /\ lastCall' = Call("tick", h, <<>>,
                      <<[current |-> trackers[h].current]>>, FALSE)
    /\ ncalls' = ncalls + 1
    /\ UNCHANGED <<errorVars, backendUp>>
    /\ UNCHANGED <<spans, now>>

ProgressTick(h) ==
    /\ CanCall
    /\ IsProgress(h)
    /\ trackers' = [trackers EXCEPT ![h].current = @ + 1]
    /\ activities' = ActivityUpdate(trackers[h].activity,
                                    [current |-> trackers[h].current + 1])
    /\ ticked' = [ticked EXCEPT ![h].ticks = @ + 1]
    /\ lastCall' = Call("tick", h, <<>>,
                      <<[current |-> trackers[h].current + 1]>>, FALSE)
    /\ ncalls' = ncalls + 1
    /\ UNCHANGED <<errorVars, backendUp>>
    /\ UNCHANGED <<spans, now>>

\* ProgressDone without span.finish(): only the backend activity is completed.
ProgressDoneUnfinished(h) ==
    /\ CanCall
    /\ IsProgress(h)
    /\ activities' = ActivityDone(trackers[h].activity)
    /\ lastCall' = Call("done", h, <<>>, <<>>, TRUE)
    /\ ncalls' = ncalls + 1
    /\ UNCHANGED <<errorVars, backendUp>>
    /\ UNCHANGED <<spans, trackers, ticked, now>>

ProgressDone(h) ==
    /\ CanCall
    /\ IsProgress(h)
    /\ spans' = SpanFinish(trackers[h].span)
    /\ activities' = ActivityDone(trackers[h].activity)
    /\ lastCall' = Call("done", h, <<>>, <<>>, TRUE)
    /\ ncalls' = ncalls + 1
    /\ UNCHANGED <<errorVars, backendUp>>
    /\ UNCHANGED <<trackers, ticked, now>>

\* ProgressSetTotal that assigns the closure's total and pushes nothing.
ProgressSetTotalSilent(h, value) ==
    /\ CanCall
    /\ IsProgress(h)
    /\ trackers' = [trackers EXCEPT ![h].total = value]
    /\ lastCall' = Call("setTotal", h, [value |-> value], <<>>, FALSE)
    /\ ncalls' = ncalls + 1
    /\ UNCHANGED <<errorVars, backendUp>>
    /\ UNCHANGED <<spans, activities, ticked, now>>

\* ProgressSetTotal clamping the total to the current count.
ProgressSetTotalClamped(h, value) ==
    LET clamped == IF value < trackers[h].current THEN trackers[h].current ELSE value
    IN  /\ CanCall
        /\ IsProgress(h)
        /\ trackers' = [trackers EXCEPT ![h].total = clamped]
        /\ activities' = ActivityUpdate(trackers[h].activity, [total |-> clamped])
        /\ lastCall' = Call("setTotal", h, [value |-> value],
                          <<[total |-> clamped]>>, FALSE)
        /\ ncalls' = ncalls + 1
        /\ UNCHANGED <<errorVars, backendUp>>
        /\ UNCHANGED <<spans, ticked, now>>

ProgressSetTotal(h, value) ==
    /\ CanCall
    /\ IsProgress(h)
    /\ trackers' = [trackers EXCEPT ![h].total = value]
    /\ activities' = ActivityUpdate(trackers[h].activity, [total |-> value])
    /\ lastCall' = Call("setTotal", h, [value |-> value],
                      <<[total |-> value]>>, FALSE)
    /\ ncalls' = ncalls + 1
    /\ UNCHANGED <<errorVars, backendUp>>
    /\ UNCHANGED <<spans, ticked, now>>

\* -------------------------------------------------------------------- Next
CreateTimer == \E n \in Names, p \in ParentSpans : ActivityTimer(n, p)
StartTimer == \E h \in Handles : TimerStart(h)
StatusTimer == \E h \in Handles, s \in Statuses : TimerSetStatus(h, s)
EndTimer == \E h \in Handles : TimerEnd(h)
NewProgress ==
    \E n \in Names, t \in Totals, s \in Starts, p \in ParentSpans :
        CreateProgress(n, t, s, p)
StartProgress == \E h \in Handles : ProgressStart(h)
StatusProgress == \E h \in Handles, s \in Statuses : ProgressSetStatus(h, s)
TickProgress == \E h \in Handles : ProgressTick(h)
DoneProgress == \E h \in Handles : ProgressDone(h)
TotalProgress == \E h \in Handles, v \in Totals : ProgressSetTotal(h, v)

Next ==
    \/ CreateTimer
    \/ StartTimer
    \/ StatusTimer
    \/ EndTimer
    \/ NewProgress
    \/ StartProgress
    \/ StatusProgress
    \/ TickProgress
    \/ DoneProgress
    \/ TotalProgress

Spec == Init /\ [][Next]_vars

\* The error facade, under either execution mode.
ErrInit ==
    /\ spans = <<>>
    /\ activities = <<>>
    /\ trackers = <<>>
    /\ ticked = <<>>
    /\ now = 0
    /\ ncalls = 0
    /\ lastCall = Call("none", 0, <<>>, <<>>, FALSE)
    /\ backendUp = TRUE
    /\ mode \in Commands
    /\ proc = "running"
    /\ report = NoReport

CallError == \E args \in ArgLists : ReporterError(args)
CallPanic == \E args \in ArgLists : Panic(args)
CallPanicOnBuild == \E args \in ArgLists : PanicOnBuild(args)

ErrNext ==
    \/ CallError
    \/ CallPanic
    \/ CallPanicOnBuild

ErrSpec == ErrInit /\ [][ErrNext]_vars

\* ------------------------------------------- a rendering backend that fails
\* The backend becomes unavailable: from here on createActivity, update and
\* done throw.
BackendFails ==
    /\ backendUp
    /\ backendUp' = FALSE
    /\ UNCHANGED <<spans, activities, trackers, ticked, now, ncalls, lastCall>>
    /\ UNCHANGED errorVars

\* activityTimer / createProgress: the span is started, then createActivity
\* throws and no handle is returned.
CreateFails(op, name, parentSpan) ==
    /\ ~backendUp
    /\ CanCall
    /\ Len(spans) < MaxActs
    /\ spans' = StartSpan(name, parentSpan)
    /\ lastCall' = Thrown(op, 0, [name |-> name, parentSpan |-> parentSpan], FALSE)
    /\ ncalls' = ncalls + 1
    /\ UNCHANGED <<activities, trackers, ticked, now>>
    /\ UNCHANGED <<errorVars, backendUp>>

\* start(): the clock is read for the argument, then update throws. A progress
\* tracker has set hasStarted by then; one already started returns at once.
StartFails(h) ==
    /\ ~backendUp
    /\ CanCall
    /\ IF IsProgress(h) /\ trackers[h].hasStarted
       THEN /\ lastCall' = Call("start", h, <<>>, <<>>, FALSE)
            /\ UNCHANGED <<trackers, now>>
       ELSE /\ now < MaxTime
            /\ now' = now + 1
            /\ trackers' = IF IsProgress(h)
                           THEN [trackers EXCEPT ![h].hasStarted = TRUE]
                           ELSE trackers
            /\ lastCall' = Thrown("start", h, <<>>, FALSE)
    /\ ncalls' = ncalls + 1
    /\ UNCHANGED <<spans, activities, ticked>>
    /\ UNCHANGED <<errorVars, backendUp>>

\* setStatus(status): update throws.
SetStatusFails(h, status) ==
    /\ ~backendUp
    /\ CanCall
    /\ lastCall' = Thrown("setStatus", h, [status |-> status], FALSE)
    /\ ncalls' = ncalls + 1
    /\ UNCHANGED <<spans, activities, trackers, ticked, now>>
    /\ UNCHANGED <<errorVars, backendUp>>

\* tick(): ++current is evaluated for the argument, then update throws.
TickFails(h) ==
    /\ ~backendUp
    /\ CanCall
    /\ IsProgress(h)
    /\ trackers' = [trackers EXCEPT ![h].current = @ + 1]
    /\ ticked' = [ticked EXCEPT ![h].ticks = @ + 1]
    /\ lastCall' = Thrown("tick", h, <<>>, FALSE)
    /\ ncalls' = ncalls + 1
    /\ UNCHANGED <<spans, activities, now>>
    /\ UNCHANGED <<errorVars, backendUp>>

\* end() / done(): span.finish() is called, then activity.done() throws.
EndFails(h) ==
    /\ ~backendUp
    /\ CanCall
    /\ spans' = SpanFinish(trackers[h].span)
    /\ lastCall' = Thrown(IF IsProgress(h) THEN "done" ELSE "end", h, <<>>, TRUE)
    /\ ncalls' = ncalls + 1
    /\ UNCHANGED <<activities, trackers, ticked, now>>
    /\ UNCHANGED <<errorVars, backendUp>>

\* set total(value): total is assigned, then update throws.
SetTotalFails(h, value) ==
    /\ ~backendUp
    /\ CanCall
    /\ IsProgress(h)
    /\ trackers' = [trackers EXCEPT ![h].total = value]
    /\ lastCall' = Thrown("setTotal", h, [value |-> value], FALSE)
    /\ ncalls' = ncalls + 1
    /\ UNCHANGED <<spans, activities, ticked, now>>
    /\ UNCHANGED <<errorVars, backendUp>>

CreateFailing ==
    \E op \in {"activityTimer", "createProgress"}, n \in Names,
       p \in ParentSpans : CreateFails(op, n, p)
StartFailing == \E h \in Handles : StartFails(h)
StatusFailing == \E h \in Handles, s \in Statuses : SetStatusFails(h, s)
TickFailing == \E h \in Handles : TickFails(h)
EndFailing == \E h \in Handles : EndFails(h)
TotalFailing == \E h \in Handles, v \in Totals : SetTotalFails(h, v)

\* A call made while the backend is available.
WorkingCall == backendUp /\ Next

FailNext ==
    \/ WorkingCall
    \/ BackendFails
    \/ CreateFailing
    \/ StartFailing
    \/ StatusFailing
    \/ TickFailing
    \/ EndFailing
    \/ TotalFailing

\* The activity API with a backend that may become unavailable.
FailSpec == Init /\ [][FailNext]_vars

\* ================================================================= claims
\* A step that is the call op on handle h.
CalledOn(h, op) == ncalls' = ncalls + 1 /\ lastCall'.h = h /\ lastCall'.op = op
HandleOps == {"start", "setStatus", "tick", "setTotal", "end", "done"}
SpanOf(h) == spans[trackers[h].span]
BackendOf(h) == activities[trackers[h].activity]

\* C1: a progress tracker's current is its start argument plus the number of
\* tick() calls made; a tick() raises current by exactly one and pushes the new
\* count to the backend; no other step changes current.
C1_CurrentCountsTicks ==
    [][\A h \in 1..Len(trackers') :
        trackers'[h].kind = "progress" =>
            /\ trackers'[h].current = ticked'[h].start + ticked'[h].ticks
            /\ (h \in Handles /\ CalledOn(h, "tick")) =>
                /\ trackers'[h].current = trackers[h].current + 1
                /\ ticked'[h].ticks = ticked[h].ticks + 1
                /\ lastCall'.updates = <<[current |-> trackers'[h].current]>>
                /\ activities'[trackers[h].activity].fields.current
                        = trackers'[h].current
            /\ (h \in Handles /\ ~CalledOn(h, "tick")) =>
                /\ trackers'[h].current = trackers[h].current
                /\ ticked'[h] = ticked[h]
            /\ h \notin Handles => ticked'[h] = [start |-> lastCall'.arg.start, ticks |-> 0]
      ]_vars

\* C1 witness: two ticks on a tracker created with start 1, one of them after
\* done(): current is 3.
C1_Witness ==
    \E h \in Handles :
        /\ IsProgress(h)
        /\ lastCall.op = "tick" /\ lastCall.h = h
        /\ ticked[h] = [start |-> 1, ticks |-> 2]
        /\ trackers[h].current = 3
        /\ SpanOf(h).finished

\* C2: assigning total changes the closure's total and the backend's total to
\* the assigned value, pushes exactly that update, and changes nothing else:
\* current, hasStarted and the start time stay; the value is not clamped.
C2_TotalAssignmentFrame ==
    [][\A h \in Handles :
        (IsProgress(h) /\ CalledOn(h, "setTotal")) =>
            LET v == lastCall'.arg.value
                a == trackers[h].activity
            IN  /\ trackers' = [trackers EXCEPT ![h].total = v]
                /\ trackers'[h].current = trackers[h].current
                /\ trackers'[h].hasStarted = trackers[h].hasStarted
                /\ lastCall'.updates = <<[total |-> v]>>
                /\ ~lastCall'.finish
                /\ activities'[a].fields.total = v
                /\ DOMAIN activities'[a].fields = DOMAIN activities[a].fields
                /\ \A k \in DOMAIN activities[a].fields \ {"total"} :
                        activities'[a].fields[k] = activities[a].fields[k]
                /\ activities'[a].done = activities[a].done
                /\ \A b \in DOMAIN activities : b # a => activities'[b] = activities[b]
                /\ UNCHANGED <<spans, ticked, now>>
      ]_vars

\* C2 witness: a started tracker whose current (2) exceeds the total just
\* assigned (1).
C2_Witness ==
    \E h \in Handles :
        /\ IsProgress(h)
        /\ lastCall.op = "setTotal" /\ lastCall.h = h /\ lastCall.arg.value = 1
        /\ trackers[h].hasStarted
        /\ trackers[h].current = 2
        /\ trackers[h].total = 1
        /\ BackendOf(h).fields.total = 1
        /\ BackendOf(h).fields.startTime = 1

\* C3: the first start() of a progress tracker stamps the start time and pushes
\* it; every later start() pushes nothing and leaves the tracker, the backend
\* (start time included) and the clock as they were.
C3_ProgressStartIdempotent ==
    [][\A h \in Handles :
        (IsProgress(h) /\ CalledOn(h, "start")) =>
            IF trackers[h].hasStarted
            THEN /\ lastCall'.updates = <<>>
                 /\ ~lastCall'.finish
                 /\ UNCHANGED <<trackers, activities, spans, ticked, now>>
            ELSE /\ trackers'[h].hasStarted
                 /\ lastCall'.updates = <<[startTime |-> now']>>
                 /\ activities'[trackers[h].activity].fields.startTime = now'
                 /\ now' > now
      ]_vars

\* C3 witness: start(), tick(), then a second start() that pushed nothing and
\* kept the first stamp.
C3_Witness ==
    \E h \in Handles :
        /\ IsProgress(h)
        /\ lastCall.op = "start" /\ lastCall.h = h /\ lastCall.updates = <<>>
        /\ trackers[h].hasStarted
        /\ ticked[h].ticks = 1
        /\ BackendOf(h).fields.startTime = 1
        /\ now < MaxTime

\* C4 (as claimed): after end()/done() every later call on the handle is a
\* no-op: no field changes, nothing is pushed, the span is not finished again.
C4_NoMutationAfterEnd ==
    [][\A h \in Handles :
        (/\ SpanOf(h).finished
         /\ ncalls' = ncalls + 1
         /\ lastCall'.h = h
         /\ lastCall'.op \in HandleOps) =>
            /\ lastCall'.updates = <<>>
            /\ ~lastCall'.finish
            /\ UNCHANGED <<trackers, activities, spans>>
      ]_vars

\* C5: two spinner activities registered under the same name have distinct
\* spans and distinct backend activities, and a start/setStatus/end call on
\* one leaves the other's span, backend activity and closure as they were.
C5_TimersIndependent ==
    [][\A h, g \in Handles :
        (/\ h # g
         /\ IsSpinner(h) /\ IsSpinner(g)
         /\ BackendOf(h).fields.id = BackendOf(g).fields.id) =>
            /\ trackers[h].span # trackers[g].span
            /\ trackers[h].activity # trackers[g].activity
            /\ (/\ ncalls' = ncalls + 1
                /\ lastCall'.h = h
                /\ lastCall'.op \in {"start", "setStatus", "end"}) =>
                    /\ spans'[trackers[g].span] = SpanOf(g)
                    /\ activities'[trackers[g].activity] = BackendOf(g)
                    /\ trackers'[g] = trackers[g]
      ]_vars

\* C5 witness: two timers named alike; the first was ended, the second had its
\* status set and is still unfinished.
C5_Witness ==
    /\ Len(trackers) = 2
    /\ IsSpinner(1) /\ IsSpinner(2)
    /\ BackendOf(1).fields.id = BackendOf(2).fields.id
    /\ lastCall.op = "end" /\ lastCall.h = 1
    /\ SpanOf(1).finished /\ BackendOf(1).done
    /\ ~SpanOf(2).finished /\ ~BackendOf(2).done
    /\ BackendOf(2).fields.status = "half"

\* ---------------------------------------------------------- error claims
Effects == report.effects
NEffects == Len(report.effects)
TelemetryEvents == {i \in 1..NEffects : Effects[i].kind = "telemetry"}
\* createRichError ran in the last call and built a record.
Built == DOMAIN report.built # {}
Rendered == NEffects >= 1 /\ Effects[1].kind = "render"
\* createRichError ended the process on a record the schema rejects.
ValidationFailed == Built /\ ~SchemaValid(report.built)

\* C6 (as claimed, stated for the calls whose details pass validation): panic,
\* whatever its arguments, reports the error, then records exactly one
\* GENERAL_PANIC telemetry event, then exits with status 1.
C6_PanicReportsTracksExits ==
    (report.op = "panic" /\ ~ValidationFailed) =>
        /\ NEffects >= 3
        /\ Rendered
        /\ TelemetryEvents = {NEffects - 1}
        /\ Effects[NEffects - 1] = Telemetry("GENERAL_PANIC")
        /\ Effects[NEffects] = Exit(1)
        /\ report.outcome = "exited"
        /\ proc = "exited"

\* C7 (as claimed, stated for the calls whose details pass validation):
\* panicOnBuild, whatever its arguments, reports the error, records exactly one
\* BUILD_PANIC telemetry event, and exits with status 1 if and only if the
\* command is build; otherwise it returns with the process running.
C7_PanicOnBuildExitsOnlyInBuild ==
    (report.op = "panicOnBuild" /\ ~ValidationFailed) =>
        /\ Rendered
        /\ Cardinality(TelemetryEvents) = 1
        /\ \A i \in TelemetryEvents : Effects[i] = Telemetry("BUILD_PANIC")
        /\ (report.outcome = "exited") <=> (mode = "build")
        /\ mode = "build" => (Effects[NEffects] = Exit(1) /\ proc = "exited")
        /\ mode # "build" => (report.outcome = "returned" /\ proc = "running")

\* C8 (as claimed): error(exception) builds details with the exception and its
\* message, and does what error(exception.message, exception) does.
C8_ErrorShapesEquivalent ==
    (report.op = "error" /\ Len(report.args) = 1 /\ IsError(report.args[1])) =>
        LET exception == report.args[1]
            both == ErrorCall(<<Str(exception.message), exception>>)
        IN  /\ report.details = [error |-> exception, text |-> exception.message]
            /\ report.built = both.built
            /\ report.effects = both.effects
            /\ report.outcome = both.outcome

\* C9 (as claimed): a field present in the details and in the looked-up
\* definition carries the caller's value in the rich error (text aside).
C9_DetailsOverrideDefinition ==
    Built =>
        \A k \in ((DOMAIN report.details) \cap (DOMAIN LookUp(report.details)))
                    \ {"text"} :
            report.built[k] = report.details[k]

\* C9 (amended): the looked-up definition's fields override the caller's
\* details: a field of the definition carries the definition's value in the
\* rich error, a field only the details have carries the caller's value; text
\* and stack are resolved apart.
C9_DefinitionOverridesDetails ==
    Built =>
        LET definition == LookUp(report.details)
        IN  /\ DOMAIN report.built =
                    (DOMAIN report.details) \cup (DOMAIN definition)
                        \cup {"text", "stack"}
            /\ \A k \in (DOMAIN definition) \ {"text"} :
                    report.built[k] = definition[k]
            /\ \A k \in (DOMAIN report.details)
                            \ ((DOMAIN definition) \cup {"text", "stack"}) :
                    report.built[k] = report.details[k]

\* C9 witness: error({id: "85901", level: "INFO", ...}) rendered a rich error
\* whose level is the definition's.
C9_Witness ==
    /\ report.op = "error"
    /\ Rendered
    /\ Present(report.details, "level") /\ report.details.level = "INFO"
    /\ Present(report.details, "id") /\ report.details.id = "85901"
    /\ Effects[1].error.level = "WARNING"
    /\ Effects[1].error.id = "85901"

\* C10: the rich error's text is the caller's text when that is present and
\* non-empty, and otherwise the text the selected definition generates from the
\* details' context.
C10_TextResolution ==
    Built =>
        LET details == report.details
            definition ==
                IF "id" \in DOMAIN details /\ details.id \in DOMAIN errorMap
                THEN errorMap[details.id] ELSE defaultError
            context == IF "context" \in DOMAIN details THEN details.context ELSE <<>>
        IN  report.built.text =
                IF "text" \in DOMAIN details /\ details.text # ""
                THEN details.text
                ELSE Generate(definition.text, context)

\* C10 witness: the caller's text is the empty string, so the rendered text is
\* the one the definition of 85901 generates from the context.
C10_Witness ==
    /\ Rendered
    /\ Present(report.details, "text") /\ report.details.text = ""
    /\ Present(report.details, "id") /\ report.details.id = "85901"
    /\ Present(report.details, "context")
    /\ Effects[1].error.text = "GraphQL: disk full"

\* C11: a missing identifier and an identifier the table does not hold both
\* select the default definition: the rich error carries the default's level
\* and no category of a table entry, and the miss itself neither ends the
\* process nor throws (error() on well-shaped details returns, having rendered).
LookupMiss ==
    "id" \notin DOMAIN report.details \/ report.details.id \notin DOMAIN errorMap
C11_LookupFallsBackToDefault ==
    (Built /\ LookupMiss) =>
        /\ \A k \in (DOMAIN defaultError) \ {"text"} :
                report.built[k] = defaultError[k]
        /\ DOMAIN report.built =
                (DOMAIN report.details) \cup (DOMAIN defaultError) \cup {"text", "stack"}
        /\ ~Truthy(report.details, "text") =>
                report.built.text = Generate(defaultError.text, ContextOf(report.details))
        /\ (report.op = "error" /\ "bogus" \notin DOMAIN report.details) =>
                (report.outcome = "returned" /\ Rendered /\ proc = "running")

\* C11 witness: error({id: "00000"}) returned with a rendered rich error that
\* has the default level and keeps the caller's id.
C11_Witness ==
    /\ report.op = "error"
    /\ report.details = [id |-> "00000"]
    /\ report.outcome = "returned"
    /\ Rendered
    /\ Effects[1].error.level = "ERROR"
    /\ Effects[1].error.id = "00000"
    /\ Effects[1].error.text = "There was an error"

\* C12: every rich error handed to the backend passes the schema; when the
\* built record fails it, the call emits the diagnostic and exits with status 1
\* and does nothing else: no render, no stack-trace line, no telemetry event.
C12_OnlyValidErrorsRendered ==
    /\ \A i \in 1..NEffects :
            Effects[i].kind = "render" =>
                (SchemaValid(Effects[i].error) /\ Effects[i].error = report.built)
    /\ ValidationFailed =>
            /\ Effects = <<LogText("Failed to validate error"), Exit(1)>>
            /\ report.outcome = "exited"
            /\ proc = "exited"

\* C12 witness: panic on details with a key the schema rejects, and an
\* exception attached: the diagnostic and the exit, nothing else.
C12_Witness ==
    /\ report.op = "panic"
    /\ Present(report.details, "bogus")
    /\ Present(report.details, "error")
    /\ ValidationFailed
    /\ NEffects = 2
    /\ Effects[2] = Exit(1)
    /\ TelemetryEvents = {}
    /\ proc = "exited"

\* C19: an error() call that returns has handed exactly one rich error to the
\* backend, first; it is followed by exactly one log line with the formatted
\* exception when the rich error carries one, and by nothing otherwise.
C19_RenderThenStackLine ==
    (report.op = "error" /\ report.outcome = "returned") =>
        /\ Built
        /\ IF "error" \in DOMAIN report.built
           THEN Effects = <<Render(report.built), LogStack(report.built.error)>>
           ELSE Effects = <<Render(report.built)>>

\* C19 witness: error("oops", exception) rendered the rich error and then
\* logged the exception.
C19_Witness ==
    /\ report.op = "error"
    /\ Len(report.args) = 2
    /\ report.outcome = "returned"
    /\ NEffects = 2
    /\ Effects[1].kind = "render"
    /\ Effects[1].error.text = "oops"
    /\ Effects[2] = LogStack(report.args[2])

\* --------------------------------------------------- activity claims, cont.
Creations == {"activityTimer", "createProgress"}
Created(op) == ncalls' = ncalls + 1 /\ lastCall'.op = op
Started(h) == "startTime" \in DOMAIN BackendOf(h).fields

\* C14: an activityTimer/createProgress call starts exactly one span, owned by
\* the new tracker, whose parent is the parentSpan given (none if none is
\* given); the spans already there, finished or not, are left as they are; no
\* other call starts a span or changes a parent; the parent-of relation is a
\* forest (one parent at most, always an earlier span).
C14_SpanForest ==
    [][/\ \A s \in DOMAIN spans' : spans'[s].childOf \in 0..(s - 1)
       /\ IF \E op \in Creations : Created(op)
          THEN /\ Len(spans') = Len(spans) + 1
               /\ \A s \in DOMAIN spans : spans'[s] = spans[s]
               /\ spans'[Len(spans')].childOf = lastCall'.arg.parentSpan
               /\ ~spans'[Len(spans')].finished
               /\ Len(trackers') = Len(trackers) + 1
               /\ trackers'[Len(trackers')].span = Len(spans')
               /\ \A h \in Handles : trackers'[h].span = trackers[h].span
          ELSE /\ Len(spans') = Len(spans)
               /\ \A s \in DOMAIN spans : spans'[s].childOf = spans[s].childOf
               /\ \A h \in Handles : trackers'[h].span = trackers[h].span
      ]_vars

\* C14 witness: a progress tracker created under the span of a timer that was
\* already ended; the parent stays finished, the child is unfinished.
C14_Witness ==
    /\ Len(spans) = 2
    /\ lastCall.op = "createProgress"
    /\ spans[1].finished
    /\ spans[2].childOf = 1
    /\ ~spans[2].finished
    /\ IsSpinner(1) /\ IsProgress(2)

\* C15 (as claimed): no two live activities are registered with the backend
\* under the same identifier.
C15_BackendIdsUnique ==
    \A h, g \in Handles :
        (h # g /\ ~BackendOf(h).done /\ ~BackendOf(g).done) =>
            BackendOf(h).fields.id # BackendOf(g).fields.id

\* C16 (as claimed): an activity is finished (span finished, backend activity
\* done) only after start() has been called on it.
C16_FinishedOnlyAfterStart ==
    \A h \in Handles :
        (SpanOf(h).finished \/ BackendOf(h).done) =>
            (Started(h) /\ (IsProgress(h) => trackers[h].hasStarted))

\* C17: every start() on a spinner, the second and later ones included, reads
\* the clock and pushes the fresh reading as startTime.
C17_SpinnerStartRestamps ==
    [][\A h \in Handles :
        (IsSpinner(h) /\ CalledOn(h, "start")) =>
            /\ now' > now
            /\ lastCall'.updates = <<[startTime |-> now']>>
            /\ activities'[trackers[h].activity].fields.startTime = now'
            /\ Started(h) =>
                    activities'[trackers[h].activity].fields.startTime
                        # BackendOf(h).fields.startTime
      ]_vars

\* C17 witness: a spinner started twice carries the second reading.
C17_Witness ==
    \E h \in Handles :
        /\ IsSpinner(h)
        /\ lastCall.op = "start" /\ lastCall.h = h
        /\ lastCall.updates = <<[startTime |-> 2]>>
        /\ BackendOf(h).fields.startTime = 2
        /\ ncalls = 3

\* C18: a span is started unfinished, becomes finished in an end()/done() call
\* on the tracker that owns it and in no other step, and every end()/done()
\* call leaves its tracker's span finished.
C18_SpanFinishedOnlyByEnd ==
    [][/\ \A s \in DOMAIN spans' :
            IF s \in DOMAIN spans
            THEN (spans'[s].finished # spans[s].finished) =>
                    /\ spans'[s].finished
                    /\ \E h \in Handles :
                        /\ trackers[h].span = s
                        /\ CalledOn(h, "end") \/ CalledOn(h, "done")
                        /\ lastCall'.finish
            ELSE ~spans'[s].finished
       /\ \A h \in Handles :
            (CalledOn(h, "end") \/ CalledOn(h, "done")) =>
                (spans'[trackers[h].span].finished /\ lastCall'.finish)
       /\ (lastCall'.op \notin {"end", "done"}) => ~lastCall'.finish
      ]_vars

\* C18 witness: of two trackers the one that was done() has a finished span;
\* the other, ticked past its total but never ended, has not.
C18_Witness ==
    /\ Len(trackers) = 2
    /\ IsProgress(1) /\ IsProgress(2)
    /\ SpanOf(1).finished
    /\ ~SpanOf(2).finished
    /\ trackers[2].current = trackers[2].total + 1
    /\ lastCall.op = "tick" /\ lastCall.h = 2

\* C20: the backend's record of a progress activity carries the tracker's
\* current and total: what createActivity and the later updates delivered is
\* what the closure holds.
C20_BackendMirrorsTracker ==
    \A h \in Handles :
        IsProgress(h) =>
            /\ BackendOf(h).fields.current = trackers[h].current
            /\ BackendOf(h).fields.total = trackers[h].total

\* C20 witness: after two ticks and a total assignment both sides hold
\* current 2 and total 1.
C20_Witness ==
    \E h \in Handles :
        /\ IsProgress(h)
        /\ ticked[h] = [start |-> 0, ticks |-> 2]
        /\ lastCall.op = "setTotal"
        /\ trackers[h].total = 1
        /\ BackendOf(h).fields.current = 2
        /\ BackendOf(h).fields.total = 1

\* C13 (as claimed): with the backend unavailable the factories still return a
\* handle and no factory or handle call ends in an exception to the caller;
\* end()/done() still finish the span.
C13_BackendFailureContained ==
    /\ ~lastCall.threw
    /\ lastCall.op \in {"activityTimer", "createProgress"} =>
            lastCall.h = Len(trackers)
    /\ (lastCall.op \in {"end", "done"}) => SpanOf(lastCall.h).finished

====
